---- MODULE Spec2Model ----
(***************************************************************************)
(* A model of the shell of virusbb001/codecrafters-shell-rust:             *)
(*   - the combinator tokenizer of src/src/tokenize.rs,                    *)
(*   - the quote/escape resolver of src/src/unescape.rs,                   *)
(*   - the read-eval loop of src/src/main.rs (with its own loop tokenizer). *)
(* A Rust &str is a sequence of characters; every character has a UTF-8   *)
(* width, and a slice s[..k] is taken at a BYTE offset k, which panics     *)
(* when k is not a character boundary.                                     *)
(***************************************************************************)
EXTENDS Integers, Sequences, FiniteSets, TLC

VARIABLES
    t_src,      \* tokenizer: the line handed to tokenize
    t_result,   \* tokenizer: what tokenize returned (NoResult before the call)
    u_src,      \* resolver: the token handed to unescape
    u_pos,      \* resolver: the number of characters the loop has consumed
    u_state,    \* resolver: the UnescapeState of the loop
    u_result,   \* resolver: the String built so far
    u_last,     \* resolver: the last iteration (its ch, peek, state and result
                \* before it), NoStep before the first
    sh_pc,      \* shell: where main is: "loop" (the while test), "eval" (a line
                \* is parsed, eval not yet called), "wait" (in Child::wait),
                \* "exited" (std::process::exit), "panicked"
    sh_state,   \* shell: the ShellState of main
    sh_input,   \* shell: the line read last
    sh_argv,    \* shell: the words parse returned for it
    sh_out,     \* shell: what the last step printed
    sh_status,  \* shell: the code the process exited with
    sh_eof,     \* shell: standard input has reached end of file
    sh_nread,   \* shell: the number of read_line calls made, up to MaxLines
    sh_child,   \* shell: the child process of eval: its program, arguments
                \* and directory, and its status: "none", "running" or
                \* "exited" (a zombie that wait has not reaped yet)
    env_path,   \* environment: the PATH variable
    env_home,   \* environment: what env::home_dir returns
    env_cwd     \* environment: the working directory of the process

tokvars == <<t_src, t_result>>
unescvars == <<u_src, u_pos, u_state, u_result, u_last>>
shvars == <<sh_pc, sh_state, sh_input, sh_argv, sh_out, sh_status, sh_eof,
            sh_nread, sh_child>>
envvars == <<env_path, env_home, env_cwd>>
vars == <<tokvars, unescvars, shvars, envvars>>

----------------------------------------------------------------------------
(* Bounds of the model *)

\* longest line handed to the tokenizer
MaxLineLen == 5

\* longest token handed to the resolver
MaxTokenLen == 5

\* most lines the shell reads in one run
MaxLines == 3

----------------------------------------------------------------------------
(* Characters *)

\* a character encoded in two bytes (U+00E9, e acute)
EAcute == "U+00E9"

BackSlash == "\\"

\* Quote::ch
SingleQuoteCh == "'"

\* Quote::ch
DoubleQuoteCh == "\""

\* whitespace that is not ASCII whitespace: the vertical tab (U+000B, one
\* byte) and the no-break space (U+00A0, two bytes)
VTab == "U+000B"
Nbsp == "U+00A0"

\* char::len_utf8 of the characters of the model
len_utf8(ch) == IF ch \in {EAcute, Nbsp} THEN 2 ELSE 1

\* char::is_ascii_whitespace: space, tab, line feed, form feed, carriage return
is_ascii_whitespace(ch) == ch \in {" ", "\t", "\n", "\f", "\r"}

\* char::is_whitespace: the characters of the Unicode property White_Space
is_whitespace(ch) == is_ascii_whitespace(ch) \/ ch \in {VTab, Nbsp}

\* str::len: the length in bytes
RECURSIVE str_len(_)
str_len(s) == IF s = <<>> THEN 0 ELSE len_utf8(Head(s)) + str_len(Tail(s))

\* str::is_char_boundary: the number of characters before byte offset k,
\* or -1 when k falls inside a character
RECURSIVE char_boundary(_, _)
char_boundary(s, k) ==
    IF k = 0 THEN 0
    ELSE IF s = <<>> \/ k < len_utf8(Head(s)) THEN -1
    ELSE LET r == char_boundary(Tail(s), k - len_utf8(Head(s)))
         IN  IF r = -1 THEN -1 ELSE r + 1

\* str::trim_start
RECURSIVE trim_start(_)
trim_start(s) ==
    IF s # <<>> /\ is_whitespace(Head(s)) THEN trim_start(Tail(s)) ELSE s

----------------------------------------------------------------------------
(* Parser results: Option<(T, &str)>, or the panic of a slice off a boundary *)

None == [kind |-> "None"]
Panic == [kind |-> "Panic"]
Some(v, r) == [kind |-> "Some", val |-> v, rest |-> r]

\* (&s[..k], &s[k..]) with k a byte offset
split_at(s, k) ==
    LET n == char_boundary(s, k)
    IN  IF n = -1 THEN Panic
        ELSE Some(SubSeq(s, 1, n), SubSeq(s, n + 1, Len(s)))

----------------------------------------------------------------------------
(* tokenize.rs: raw_word *)

\* a raw run ends before | too (a plausible bug: pipes are not words)
is_terminator_pipe(ch) ==
    is_whitespace(ch) \/ ch = "'" \/ ch = "\"" \/ ch = ">" \/ ch = "|"

\* the condition of raw_word that ends the raw run
is_terminator(ch) == is_whitespace(ch) \/ ch = "'" \/ ch = "\"" \/ ch = ">"

\* the loop of raw_word: the index (counted in characters) of the first
\* unescaped terminator, or -1 when the loop runs off the end
RECURSIVE raw_word_loop(_, _, _)
raw_word_loop(s, index, escape) ==
    IF index >= Len(s) THEN -1
    ELSE LET ch == s[index + 1]
         IN  IF escape THEN raw_word_loop(s, index + 1, FALSE)
             ELSE IF ch = BackSlash THEN raw_word_loop(s, index + 1, TRUE)
             ELSE IF is_terminator(ch) THEN index
             ELSE raw_word_loop(s, index + 1, FALSE)

raw_word(s) ==
    IF s = <<>> THEN None
    ELSE LET index == raw_word_loop(s, 0, FALSE)
         IN  IF index = -1 THEN Some(s, <<>>)
             ELSE IF index = 0 THEN None
             ELSE split_at(s, index)

(* tokenize.rs: quoted *)

\* the loop of quoted: the index (counted in characters) of the first
\* unescaped ch after the opening one, or -1
RECURSIVE quoted_loop(_, _, _, _)
quoted_loop(ch, s, index, escape) ==
    IF index >= Len(s) THEN -1
    ELSE LET c == s[index + 1]
         IN  IF escape THEN quoted_loop(ch, s, index + 1, FALSE)
             ELSE IF c = BackSlash THEN quoted_loop(ch, s, index + 1, TRUE)
             ELSE IF c = ch THEN index
             ELSE quoted_loop(ch, s, index + 1, FALSE)

quoted(ch, s) ==
    IF s = <<>> \/ Head(s) # ch THEN None
    ELSE LET index == quoted_loop(ch, s, 1, FALSE)
         IN  IF index = -1 THEN None ELSE split_at(s, index + 1)

(* tokenize.rs: choice *)
choice(r1, r2) == IF r1.kind = "None" THEN r2 ELSE r1

\* the element parser of word: choice!(quoted('\''), quoted('"'), raw_word)
elem(s) == choice(choice(quoted("'", s), quoted("\"", s)), raw_word(s))

\* many(elem): the values parsed and the rest
RECURSIVE many_elem(_)
many_elem(s) ==
    LET r == elem(s)
    IN  IF r.kind = "None" THEN Some(<<>>, s)
        ELSE IF r.kind = "Panic" THEN Panic
        ELSE LET m == many_elem(r.rest)
             IN  IF m.kind = "Panic" THEN Panic
                 ELSE Some(<<r.val>> \o m.val, m.rest)

\* the fold of word: the sum of the byte lengths of the values
RECURSIVE sum_len(_)
sum_len(vs) == IF vs = <<>> THEN 0 ELSE str_len(Head(vs)) + sum_len(Tail(vs))

(* tokenize.rs: word *)
word(s) ==
    LET first == elem(s)
    IN  IF first.kind # "Some" THEN first
        ELSE LET r == many_elem(first.rest)
             IN  IF r.kind = "Panic" THEN Panic
                 ELSE split_at(s, str_len(first.val) + sum_len(r.val))

(* tokenize.rs: redirect *)
redirect(s) ==
    IF Len(s) >= 2 /\ s[1] = ">" /\ s[2] = ">" THEN split_at(s, 2)
    ELSE IF Len(s) >= 1 /\ s[1] = ">" THEN split_at(s, 1)
    ELSE None

(* tokenize.rs: lexeme *)
lexeme_word(s) == word(trim_start(s))

lexeme_redirect(s) == redirect(trim_start(s))

(* tokenize.rs: trim_space *)
trim_space(s) == Some(<<>>, trim_start(s))

\* a token: the slice (its text) and where it starts in the line (the byte
\* offset of the slice's pointer from the line's)
Token(text, rest, srclen) ==
    [text |-> text, start |-> srclen - str_len(rest) - str_len(text)]

\* many(choice!(lexeme(word), lexeme(redirect)))
RECURSIVE many_token(_, _)
many_token(s, srclen) ==
    LET r == choice(lexeme_word(s), lexeme_redirect(s))
    IN  IF r.kind = "None" THEN Some(<<>>, s)
        ELSE IF r.kind = "Panic" THEN Panic
        ELSE LET m == many_token(r.rest, srclen)
             IN  IF m.kind = "Panic" THEN Panic
                 ELSE Some(<<Token(r.val, r.rest, srclen)>> \o m.val, m.rest)

\* Result<Vec<&str>, ParseError>, or the panic
Ok(v) == [kind |-> "Ok", tokens |-> v]
Err(e) == [kind |-> "Err", err |-> e]

(* tokenize.rs: tokenize *)
tokenize(src) ==
    LET m == many_token(src, str_len(src))
    IN  IF m.kind = "Panic" THEN Panic
        ELSE LET parsed == trim_space(m.rest)
             IN  IF parsed.rest # <<>> THEN Err("UnknownToken")
                 ELSE Ok(m.val)

----------------------------------------------------------------------------
(* The tokenizer applied to every line up to MaxLineLen characters *)

TokChars == {"a", " ", "'", "\"", BackSlash, ">", "|", EAcute}

RECURSIVE StrsUpTo(_, _)
StrsUpTo(chars, n) ==
    IF n = 0 THEN {<<>>}
    ELSE LET shorter == StrsUpTo(chars, n - 1)
         IN  shorter \cup {Append(s, c) : s \in shorter, c \in chars}

NoResult == [kind |-> "NoResult"]

NoStep == [kind |-> "NoStep"]

\* the resolver before unescape is called
UnescIdle ==
    /\ u_src = <<>>
    /\ u_pos = 0
    /\ u_state = [escape |-> FALSE, is_in_quote |-> "None"]
    /\ u_result = <<>>
    /\ u_last = NoStep

\* Option::None and Option::Some
NoneOpt == [some |-> FALSE]
SomeOpt(v) == [some |-> TRUE, val |-> v]

\* no child process
NoChild == [status |-> "none", program |-> <<>>, args |-> <<>>, dir |-> <<>>]

\* the shell before main is called
ShellIdle ==
    /\ sh_pc = "idle"
    /\ sh_state = [exit_code |-> NoneOpt, pwd |-> <<>>]
    /\ sh_input = <<>>
    /\ sh_argv = <<>>
    /\ sh_out = <<>>
    /\ sh_status = NoneOpt
    /\ sh_eof = FALSE
    /\ sh_nread = 0
    /\ sh_child = NoChild
    /\ env_path = NoneOpt
    /\ env_home = NoneOpt
    /\ env_cwd = <<>>

\* the tokenizer before tokenize is called
TokIdle ==
    /\ t_src = <<>>
    /\ t_result = NoResult

InitTok ==
    /\ t_src \in StrsUpTo(TokChars, MaxLineLen)
    /\ t_result = NoResult
    /\ UnescIdle
    /\ ShellIdle

Tokenize ==
    /\ t_result = NoResult
    /\ t_result' = tokenize(t_src)
    /\ UNCHANGED <<t_src, unescvars, shvars, envvars>>

NextTok == Tokenize

SpecTok == InitTok /\ [][NextTok]_vars

----------------------------------------------------------------------------
(* unescape.rs: the quote/escape resolver *)

\* Option<char>::None: the iteration pushes nothing
NoChar == "NoChar"

\* the peeked character at the end of the token (Option::None)
NoPeek == "NoPeek"

\* a backslash in single quotes never escapes (a plausible bug: the POSIX rule)
to_escape_posix(is_in_quote, peek) ==
    CASE is_in_quote = "None" -> TRUE
      [] is_in_quote = "SingleQuote" -> FALSE
      [] is_in_quote = "DoubleQuote" -> peek = DoubleQuoteCh \/ peek = BackSlash

\* a backslash in double quotes escapes the quote only (a plausible bug)
to_escape_quote_only(is_in_quote, peek) ==
    CASE is_in_quote = "None" -> TRUE
      [] is_in_quote = "SingleQuote" -> peek = SingleQuoteCh
      [] is_in_quote = "DoubleQuote" -> peek = DoubleQuoteCh

\* a backslash outside quotes escapes quotes and backslashes only (a
\* plausible bug: the rule of double quotes applied outside)
to_escape_outside_as_double(is_in_quote, peek) ==
    CASE is_in_quote = "None" ->
             peek = SingleQuoteCh \/ peek = DoubleQuoteCh \/ peek = BackSlash
      [] is_in_quote = "SingleQuote" -> peek = SingleQuoteCh
      [] is_in_quote = "DoubleQuote" -> peek = DoubleQuoteCh \/ peek = BackSlash

\* unescape_inside: whether the backslash ch escapes the next character
to_escape(is_in_quote, peek) ==
    CASE is_in_quote = "None" -> TRUE
      [] is_in_quote = "SingleQuote" -> peek = SingleQuoteCh
      [] is_in_quote = "DoubleQuote" -> peek = DoubleQuoteCh \/ peek = BackSlash

\* unescape_inside: (Option<char>, UnescapeState)
unescape_inside(ch, peek, state) ==
    IF state.escape
    THEN [out |-> ch, state |-> [state EXCEPT !.escape = FALSE]]
    ELSE IF ch = BackSlash /\ to_escape(state.is_in_quote, peek)
    THEN [out |-> NoChar, state |-> [state EXCEPT !.escape = TRUE]]
    ELSE IF ch = SingleQuoteCh /\ state.is_in_quote = "None"
    THEN [out |-> NoChar, state |-> [state EXCEPT !.is_in_quote = "SingleQuote"]]
    ELSE IF ch = SingleQuoteCh /\ state.is_in_quote = "SingleQuote"
    THEN [out |-> NoChar, state |-> [state EXCEPT !.is_in_quote = "None"]]
    ELSE IF ch = DoubleQuoteCh /\ state.is_in_quote = "None"
    THEN [out |-> NoChar, state |-> [state EXCEPT !.is_in_quote = "DoubleQuote"]]
    ELSE IF ch = DoubleQuoteCh /\ state.is_in_quote = "DoubleQuote"
    THEN [out |-> NoChar, state |-> [state EXCEPT !.is_in_quote = "None"]]
    ELSE [out |-> ch, state |-> state]

\* String::push of the Option<char> of one iteration
push(result, out) == IF out = NoChar THEN result ELSE Append(result, out)

\* unescape, as one call (the loop run to the end of the token)
RECURSIVE unescape_from(_, _, _)
unescape_from(s, state, result) ==
    IF s = <<>> THEN result
    ELSE LET peek == IF Len(s) >= 2 THEN s[2] ELSE NoPeek
             unescaped == unescape_inside(Head(s), peek, state)
         IN  unescape_from(Tail(s), unescaped.state, push(result, unescaped.out))

unescape(src) ==
    unescape_from(src, [escape |-> FALSE, is_in_quote |-> "None"], <<>>)

\* the UnescapeState with which the loop of unescape ends
RECURSIVE unescape_state_from(_, _)
unescape_state_from(s, state) ==
    IF s = <<>> THEN state
    ELSE LET peek == IF Len(s) >= 2 THEN s[2] ELSE NoPeek
         IN  unescape_state_from(Tail(s), unescape_inside(Head(s), peek, state).state)

unescape_state(src) ==
    unescape_state_from(src, [escape |-> FALSE, is_in_quote |-> "None"])

----------------------------------------------------------------------------
(* The resolver run over every token up to MaxTokenLen characters, one     *)
(* iteration of the loop of unescape per step                               *)

UnescChars == {"a", "'", "\"", BackSlash}

InitUnescape ==
    /\ u_src \in StrsUpTo(UnescChars, MaxTokenLen)
    /\ u_pos = 0
    /\ u_state = [escape |-> FALSE, is_in_quote |-> "None"]
    /\ u_result = <<>>
    /\ u_last = NoStep
    /\ TokIdle
    /\ ShellIdle

\* one iteration of `while let Some(ch) = chars.next()`
UnescapeStep ==
    /\ u_pos < Len(u_src)
    /\ LET ch == u_src[u_pos + 1]
           peek == IF u_pos + 2 <= Len(u_src) THEN u_src[u_pos + 2] ELSE NoPeek
           unescaped == unescape_inside(ch, peek, u_state)
       IN  /\ u_state' = unescaped.state
           /\ u_result' = push(u_result, unescaped.out)
           /\ u_last' = [kind |-> "Step", ch |-> ch, peek |-> peek,
                         state |-> u_state, result |-> u_result]
    /\ u_pos' = u_pos + 1
    /\ UNCHANGED <<u_src, tokvars, shvars, envvars>>

NextUnescape == UnescapeStep

SpecUnescape == InitUnescape /\ [][NextUnescape]_vars

----------------------------------------------------------------------------
(* main.rs: the loop tokenizer (tokenize; tokenize_old of tokenize.rs is    *)
(* the same code) and parse                                                 *)

\* &src[a..b] with a and b byte offsets
slice(s, a, b) ==
    LET m == char_boundary(s, a)
        n == char_boundary(s, b)
    IN  IF m = -1 \/ n = -1 \/ a > b THEN Panic
        ELSE [kind |-> "Some", val |-> SubSeq(s, m + 1, n)]

\* Option<usize>::None of `start`
NoStart == -1

\* the match on is_in_quote at a quote character ch
toggle_quote(is_in_quote, ch) ==
    IF ch = SingleQuoteCh
    THEN (CASE is_in_quote = "None" -> "SingleQuote"
            [] is_in_quote = "SingleQuote" -> "None"
            [] OTHER -> is_in_quote)
    ELSE IF ch = DoubleQuoteCh
    THEN (CASE is_in_quote = "None" -> "DoubleQuote"
            [] is_in_quote = "DoubleQuote" -> "None"
            [] OTHER -> is_in_quote)
    ELSE is_in_quote

\* the for loop of tokenize: index counts characters
RECURSIVE tokenize_old_loop(_, _, _, _, _, _)
tokenize_old_loop(src, index, argv, start, is_in_quote, escape) ==
    IF index >= Len(src)
    THEN [kind |-> "Done", argv |-> argv, start |-> start,
          is_in_quote |-> is_in_quote]
    ELSE LET ch == src[index + 1]
             q == toggle_quote(is_in_quote, ch)
         IN  IF escape
             THEN tokenize_old_loop(src, index + 1, argv, start, is_in_quote, FALSE)
             ELSE IF ch = BackSlash
             THEN tokenize_old_loop(src, index + 1, argv, start, is_in_quote, TRUE)
             ELSE IF is_ascii_whitespace(ch)
             THEN IF q # "None"
                  THEN tokenize_old_loop(src, index + 1, argv, start, q, FALSE)
                  ELSE IF start # NoStart
                  THEN LET tok == slice(src, start, index)
                       IN  IF tok.kind = "Panic" THEN Panic
                           ELSE tokenize_old_loop(src, index + 1,
                                    Append(argv, tok.val), NoStart, q, FALSE)
                  ELSE tokenize_old_loop(src, index + 1, argv, start, q, FALSE)
             ELSE IF start = NoStart
             THEN tokenize_old_loop(src, index + 1, argv, index, q, FALSE)
             ELSE tokenize_old_loop(src, index + 1, argv, start, q, FALSE)

tokenize_old(src) ==
    LET r == tokenize_old_loop(src, 0, <<>>, NoStart, "None", FALSE)
    IN  IF r.kind = "Panic" THEN Panic
        ELSE IF r.start = NoStart THEN Ok(r.argv)
        ELSE IF r.is_in_quote # "None" THEN Err("QuoteMissing")
        ELSE LET tok == slice(src, r.start, str_len(src))
             IN  IF tok.kind = "Panic" THEN Panic
                 ELSE Ok(Append(r.argv, tok.val))

\* main.rs: parse
parse(src) ==
    LET r == tokenize_old(src)
    IN  IF r.kind = "Ok"
        THEN Ok([k \in 1..Len(r.tokens) |-> unescape(r.tokens[k])])
        ELSE r

----------------------------------------------------------------------------
(* The file system and the environment of the shell *)

\* names and words, as strings of characters
S_b == <<"b">>
S_o == <<"o">>
S_h == <<"h">>
S_d == <<"d">>
S_x == <<"x">>
S_l == <<"l">>
S_zz == <<"z", "z">>
S_ls == <<"l", "s">>
S_echo == <<"e", "c", "h", "o">>
S_exit == <<"e", "x", "i", "t">>
S_type == <<"t", "y", "p", "e">>
S_which == <<"w", "h", "i", "c", "h">>
S_pwd == <<"p", "w", "d">>
S_cd == <<"c", "d">>
Sp == <<" ">>
Nl == <<"\n">>
Sl == <<"/">>

\* the files: a node is named by its canonical path, the names from the root
Dir == [type |-> "dir", exec |-> TRUE]
ExecFile == [type |-> "file", exec |-> TRUE]
PlainFile == [type |-> "file", exec |-> FALSE]
Symlink(target) == [type |-> "link", exec |-> TRUE, target |-> target]

\* /b holds ls (executable), d and echo (not executable); /o holds ls and
\* echo (executable), the directory d and the symbolic link l to /b; /h
\* holds x (executable)
Files ==
    (<<>> :> Dir) @@
    (<<S_b>> :> Dir) @@ (<<S_b, S_ls>> :> ExecFile) @@ (<<S_b, S_d>> :> PlainFile) @@
    (<<S_b, S_echo>> :> PlainFile) @@
    (<<S_o>> :> Dir) @@ (<<S_o, S_ls>> :> ExecFile) @@ (<<S_o, S_echo>> :> ExecFile) @@
    (<<S_o, S_d>> :> Dir) @@ (<<S_o, S_l>> :> Symlink(<<S_b>>)) @@
    (<<S_h>> :> Dir) @@ (<<S_h, S_x>> :> ExecFile)

\* the node a directory entry names, its symbolic link followed
follow(node) ==
    IF Files[node].type = "link" THEN Files[node].target ELSE node

\* str::split: the pieces of s between the occurrences of sep
RECURSIVE split(_, _)
split(s, sep) ==
    IF \A i \in 1..Len(s) : s[i] # sep THEN <<s>>
    ELSE LET i == CHOOSE j \in 1..Len(s) :
                      s[j] = sep /\ \A k \in 1..(j - 1) : s[k] # sep
         IN  <<SubSeq(s, 1, i - 1)>> \o split(SubSeq(s, i + 1, Len(s)), sep)

\* Path::join of two paths written as strings
path_join(base, p) ==
    IF p # <<>> /\ Head(p) = "/" THEN p
    ELSE IF base = <<>> \/ base[Len(base)] = "/" THEN base \o p
    ELSE base \o Sl \o p

NotFound == [kind |-> "Err", err |-> "NotFound"]
NotADirectory == [kind |-> "Err", err |-> "NotADirectory"]
Found(node) == [kind |-> "Ok", node |-> node]

\* the walk of the components of a path from the node cur
RECURSIVE walk(_, _)
walk(cur, comps) ==
    IF comps = <<>> THEN Found(cur)
    ELSE IF Files[cur].type # "dir" THEN NotADirectory
    ELSE LET c == Head(comps)
         IN  IF c = <<>> \/ c = <<".">> THEN walk(cur, Tail(comps))
             ELSE IF c = <<".", ".">>
             THEN walk(IF cur = <<>> THEN cur ELSE SubSeq(cur, 1, Len(cur) - 1),
                       Tail(comps))
             ELSE IF Append(cur, c) \in DOMAIN Files
             THEN walk(follow(Append(cur, c)), Tail(comps))
             ELSE NotFound

\* the resolution of the path p by the operating system (fs::metadata,
\* fs::canonicalize) in a process whose working directory is cwd
resolve(cwd, p) ==
    IF p = <<>> THEN NotFound
    ELSE walk(IF Head(p) = "/" THEN <<>> ELSE cwd, split(p, "/"))

\* the canonical path of a node: / and its names, each after a /
RECURSIVE display(_)
display(node) ==
    IF node = <<>> THEN Sl
    ELSE IF Len(node) = 1 THEN Sl \o node[1]
    ELSE display(SubSeq(node, 1, Len(node) - 1)) \o Sl \o node[Len(node)]

\* fs::canonicalize in a process whose working directory is cwd
canonicalize(cwd, p) ==
    LET r == resolve(cwd, p)
    IN  IF r.kind = "Ok" THEN [kind |-> "Ok", path |-> display(r.node)] ELSE r

\* env::current_dir
current_dir == display(env_cwd)

----------------------------------------------------------------------------
(* main.rs: the builtins, which_internal and eval *)

I32Max == 2147483647
I32Min == -I32Max - 1

Digits == <<"0", "1", "2", "3", "4", "5", "6", "7", "8", "9">>
IsDigit(c) == \E i \in 1..Len(Digits) : Digits[i] = c
DigitVal(c) == (CHOOSE i \in 1..Len(Digits) : Digits[i] = c) - 1

\* the digit loop of i32::from_str, with its checked arithmetic
RECURSIVE parse_digits(_, _, _)
parse_digits(s, acc, positive) ==
    IF s = <<>> THEN [kind |-> "Ok", val |-> acc]
    ELSE IF ~IsDigit(Head(s)) THEN Err("InvalidDigit")
    ELSE LET d == DigitVal(Head(s))
         IN  IF positive
             THEN IF acc > I32Max \div 10 \/ acc * 10 > I32Max - d
                  THEN Err("PosOverflow")
                  ELSE parse_digits(Tail(s), acc * 10 + d, positive)
             ELSE IF acc < -(I32Max \div 10) \/ acc * 10 < I32Min + d
                  THEN Err("NegOverflow")
                  ELSE parse_digits(Tail(s), acc * 10 - d, positive)

\* v.parse::<ExitCode>()
parse_i32(s) ==
    IF s = <<>> THEN Err("Empty")
    ELSE IF s = <<"+">> \/ s = <<"-">> THEN Err("InvalidDigit")
    ELSE IF Head(s) = "+" THEN parse_digits(Tail(s), 0, TRUE)
    ELSE IF Head(s) = "-" THEN parse_digits(Tail(s), 0, FALSE)
    ELSE parse_digits(s, 0, TRUE)

\* what a builtin returns, and what it printed
Ran(state, out) == [state |-> state, out |-> out]

echo(state, argv) == Ran(state, <<"echo", argv>>)

\* exit sets the code whatever the argument (a plausible bug: the parse
\* error falls back to 0)
exit_always(state, argv) ==
    LET code == IF argv = <<>> THEN [kind |-> "Ok", val |-> 0]
                ELSE parse_i32(argv[1])
    IN  IF code.kind = "Err"
        THEN Ran([state EXCEPT !.exit_code = SomeOpt(0)], <<"error", code.err>>)
        ELSE Ran([state EXCEPT !.exit_code = SomeOpt(code.val)], <<>>)

exit(state, argv) ==
    LET code == IF argv = <<>> THEN [kind |-> "Ok", val |-> 0]
                ELSE parse_i32(argv[1])
    IN  IF code.kind = "Err" THEN Ran(state, <<"error", code.err>>)
        ELSE Ran([state EXCEPT !.exit_code = SomeOpt(code.val)], <<>>)

\* std::env::var("PATH").unwrap_or("")
path_var == IF env_path.some THEN env_path.val ELSE <<>>

\* the loop of which_internal without the test of the permission bits (a
\* plausible bug: any regular file of that name is taken)
RECURSIVE which_loop_any_file(_, _)
which_loop_any_file(dirs, cmd) ==
    IF dirs = <<>> THEN NoneOpt
    ELSE LET path == path_join(Head(dirs), cmd)
             metadata == resolve(env_cwd, path)
         IN  IF metadata.kind = "Ok" /\ Files[metadata.node].type = "file"
             THEN SomeOpt(path)
             ELSE which_loop_any_file(Tail(dirs), cmd)

\* the loop of which_internal over the directories dirs
RECURSIVE which_loop(_, _)
which_loop(dirs, cmd) ==
    IF dirs = <<>> THEN NoneOpt
    ELSE LET path == path_join(Head(dirs), cmd)
             metadata == resolve(env_cwd, path)
         IN  IF metadata.kind = "Ok"
                 /\ Files[metadata.node].type = "file"
                 /\ Files[metadata.node].exec
             THEN SomeOpt(path)
             ELSE which_loop(Tail(dirs), cmd)

which_internal(path, cmd) == which_loop(split(path, ":"), cmd)

BUILTIN_FUNCITONS == {S_echo, S_exit, S_type, S_which, S_pwd, S_cd}

\* type looks on PATH before it looks among the builtins (a plausible bug:
\* the two tests in the other order)
type_fn_path_first(state, argv) ==
    IF argv = <<>> THEN Ran(state, <<"type [cmd]">>)
    ELSE LET cmd == argv[1]
             cmd_ext == which_loop(split(path_var, ":"), cmd)
         IN  IF cmd_ext.some THEN Ran(state, <<"is", cmd, cmd_ext.val>>)
             ELSE IF cmd \in {S_echo, S_exit, S_type, S_which, S_pwd, S_cd}
             THEN Ran(state, <<"is a shell builtin", cmd>>)
             ELSE Ran(state, <<"not found", cmd>>)

type_fn(state, argv) ==
    IF argv = <<>> THEN Ran(state, <<"type [cmd]">>)
    ELSE LET cmd == argv[1]
             cmd_ext == which_internal(path_var, cmd)
         IN  IF cmd \in BUILTIN_FUNCITONS
             THEN Ran(state, <<"is a shell builtin", cmd>>)
             ELSE IF cmd_ext.some THEN Ran(state, <<"is", cmd, cmd_ext.val>>)
             ELSE Ran(state, <<"not found", cmd>>)

which(state, argv) ==
    IF argv = <<>> THEN Ran(state, <<"which [cmd]">>)
    ELSE LET cmd == argv[1]
             cmd_full == which_internal(path_var, cmd)
         IN  IF cmd_full.some THEN Ran(state, <<"is", cmd, cmd_full.val>>)
             ELSE Ran(state, <<"not found", cmd>>)

\* pwd prints the directory of the process and stores it (a plausible bug:
\* env::current_dir taken for the tracked directory)
pwd_sync(state, argv) ==
    Ran([state EXCEPT !.pwd = current_dir], <<"pwd", current_dir>>)

pwd(state, argv) == Ran(state, <<"pwd", state.pwd>>)

\* cd canonicalizes the argument without joining it onto state.pwd (a
\* plausible bug: the path is then relative to the directory of the process)
cd_no_join(state, argv) ==
    LET new_wd == IF argv = <<>> \/ argv[1] = <<"~">> THEN env_home
                  ELSE SomeOpt(argv[1])
    IN  IF ~new_wd.some THEN Ran(state, <<"failed to get new directory">>)
        ELSE LET canon == canonicalize(env_cwd, new_wd.val)
             IN  IF canon.kind = "Ok"
                 THEN Ran([state EXCEPT !.pwd = canon.path], <<>>)
                 ELSE IF canon.err = "NotFound"
                 THEN Ran(state, <<"cd: No such file or directory", new_wd.val>>)
                 ELSE Ran(state, <<"Unexpected error", canon.err>>)

\* cd stores the joined path when canonicalize fails (a plausible bug: the
\* assignment made before the check)
cd_keeps_target(state, argv) ==
    LET new_wd == IF argv = <<>> \/ argv[1] = <<"~">> THEN env_home
                  ELSE SomeOpt(argv[1])
    IN  IF ~new_wd.some THEN Ran(state, <<"failed to get new directory">>)
        ELSE LET joined == path_join(state.pwd, new_wd.val)
                 canon == canonicalize(env_cwd, joined)
             IN  IF canon.kind = "Ok"
                 THEN Ran([state EXCEPT !.pwd = canon.path], <<>>)
                 ELSE IF canon.err = "NotFound"
                 THEN Ran([state EXCEPT !.pwd = joined],
                          <<"cd: No such file or directory", new_wd.val>>)
                 ELSE Ran([state EXCEPT !.pwd = joined],
                          <<"Unexpected error", canon.err>>)

cd(state, argv) ==
    LET new_wd == IF argv = <<>> \/ argv[1] = <<"~">> THEN env_home
                  ELSE SomeOpt(argv[1])
    IN  IF ~new_wd.some THEN Ran(state, <<"failed to get new directory">>)
        ELSE LET joined == path_join(state.pwd, new_wd.val)
                 canon == canonicalize(env_cwd, joined)
             IN  IF canon.kind = "Ok"
                 THEN Ran([state EXCEPT !.pwd = canon.path], <<>>)
                 ELSE IF canon.err = "NotFound"
                 THEN Ran(state, <<"cd: No such file or directory", new_wd.val>>)
                 ELSE Ran(state, <<"Unexpected error", canon.err>>)

\* the call of the builtin named cmd
builtin_fn(cmd, state, argv) ==
    CASE cmd = S_echo -> echo(state, argv)
      [] cmd = S_exit -> exit(state, argv)
      [] cmd = S_type -> type_fn(state, argv)
      [] cmd = S_which -> which(state, argv)
      [] cmd = S_pwd -> pwd(state, argv)
      [] cmd = S_cd -> cd(state, argv)

----------------------------------------------------------------------------
(* main.rs: main, one step per action *)

\* the lines standard input may deliver
InputLines == {
    Nl,
    S_exit \o Nl,
    S_exit \o Sp \o <<"3">> \o Nl,
    S_exit \o Sp \o <<"-", "1">> \o Sp \o <<"9">> \o Nl,
    S_exit \o Sp \o <<"x">> \o Nl,
    S_exit \o Sp \o <<"2", "1", "4", "7", "4", "8", "3", "6", "4", "8">> \o Nl,
    <<"'", "e", "x", "'", "i", "t">> \o Sp \o <<"\"", "7", "\"">> \o Nl,
    S_echo \o Sp \o <<"a">> \o Nl,
    S_echo \o Sp \o S_exit \o Nl,
    S_zz \o Nl,
    S_ls \o Nl,
    S_x \o Nl,
    <<"'", "a">> \o Nl,
    S_echo \o Sp \o <<"\"", "a">> \o Nl,
    <<EAcute>> \o Sp \o <<"a">> \o Nl,
    S_cd \o Sp \o Sl \o S_b \o Nl,
    S_cd \o Sp \o <<".", ".">> \o Nl,
    S_cd \o Sp \o S_zz \o Nl,
    S_cd \o Nl,
    S_cd \o Sp \o Sl \o S_b \o Sl \o S_ls \o Nl,
    S_cd \o Sp \o <<"~">> \o Nl,
    S_cd \o Sp \o Sl \o S_o \o Sl \o S_l \o Nl,
    S_cd \o Sp \o S_o \o Sl \o S_l \o Sl \o <<".", ".">> \o Sl \o S_h \o Nl,
    S_pwd \o Nl,
    S_type \o Sp \o S_ls \o Nl,
    S_type \o Sp \o S_echo \o Nl,
    S_type \o Sp \o S_x \o Nl,
    S_type \o Sp \o S_zz \o Nl,
    S_which \o Sp \o S_zz \o Nl,
    S_which \o Sp \o S_ls \o Nl,
    S_which \o Sp \o S_echo \o Nl,
    S_which \o Sp \o S_d \o Nl,
    S_which \o Sp \o S_x \o Nl,
    S_echo \o Sp \o <<"a">> \o Sp \o <<"2">> \o Sp \o <<">">> \o Sp \o S_b \o Nl }

\* the values of PATH: unset, empty, one directory, two directories in
\* either order
PathValues == {
    NoneOpt,
    SomeOpt(<<>>),
    SomeOpt(Sl \o S_b),
    SomeOpt(Sl \o S_o \o <<":">> \o Sl \o S_b),
    SomeOpt(Sl \o S_b \o <<":">> \o Sl \o S_o) }

InitShell ==
    /\ sh_pc = "loop"
    /\ env_cwd \in {<<>>, <<S_h>>}
    /\ sh_state = [exit_code |-> NoneOpt, pwd |-> current_dir]
    /\ sh_input = <<>>
    /\ sh_argv = <<>>
    /\ sh_out = <<>>
    /\ sh_status = NoneOpt
    /\ sh_eof = FALSE
    /\ sh_nread = 0
    /\ sh_child = NoChild
    /\ env_path \in PathValues
    /\ env_home \in {NoneOpt, SomeOpt(Sl \o S_h)}
    /\ TokIdle
    /\ UnescIdle

\* the number of read_line calls made after one more, counted up to MaxLines
count_read == IF sh_nread < MaxLines THEN sh_nread + 1 ELSE sh_nread

\* the body of the while loop with the result of parse unwrapped (a
\* plausible bug: a ParseError panics)
ReadParse_unwrap(input) ==
    /\ sh_input' = input
    /\ sh_nread' = count_read
    /\ LET r == parse(input)
       IN  CASE r.kind \in {"Panic", "Err"} ->
                    /\ sh_pc' = "panicked"
                    /\ sh_out' = <<"$ ">>
                    /\ sh_argv' = <<>>
             [] r.kind = "Ok" ->
                    /\ sh_pc' = "eval"
                    /\ sh_out' = <<"$ ">>
                    /\ sh_argv' = r.tokens
    /\ UNCHANGED <<sh_state, sh_status, sh_child>>

\* the body of the while loop up to the match: the prompt, read_line and
\* parse of the line read
ReadParse(input) ==
    /\ sh_input' = input
    /\ sh_nread' = count_read
    /\ LET r == parse(input)
       IN  CASE r.kind = "Panic" ->
                    /\ sh_pc' = "panicked"
                    /\ sh_out' = <<"$ ">>
                    /\ sh_argv' = <<>>
             [] r.kind = "Err" ->
                    /\ sh_pc' = "loop"
                    /\ sh_out' = <<"$ ", r.err>>
                    /\ sh_argv' = <<>>
             [] r.kind = "Ok" ->
                    /\ sh_pc' = "eval"
                    /\ sh_out' = <<"$ ">>
                    /\ sh_argv' = r.tokens
    /\ UNCHANGED <<sh_state, sh_status, sh_child>>

\* read_line returns a line
ReadLine ==
    /\ sh_pc = "loop" /\ ~sh_state.exit_code.some
    /\ sh_nread < MaxLines
    /\ ~sh_eof
    /\ \E input \in InputLines : ReadParse(input)
    /\ UNCHANGED <<sh_eof, tokvars, unescvars, envvars>>

\* (a plausible change: the loop ends at end of file with status 0)
ReadEof_break ==
    /\ sh_pc = "loop" /\ ~sh_state.exit_code.some
    /\ sh_nread < MaxLines \/ sh_eof
    /\ sh_eof' = TRUE
    /\ sh_input' = <<>>
    /\ sh_nread' = count_read
    /\ sh_pc' = "exited"
    /\ sh_status' = SomeOpt(0)
    /\ sh_out' = <<"$ ">>
    /\ UNCHANGED <<sh_state, sh_argv, sh_child, tokvars, unescvars, envvars>>

\* read_line returns Ok(0): standard input is at end of file.  Every read
\* after that returns Ok(0) again, however many lines were read before.
ReadEof ==
    /\ sh_pc = "loop" /\ ~sh_state.exit_code.some
    /\ sh_nread < MaxLines \/ sh_eof
    /\ sh_eof' = TRUE
    /\ ReadParse(<<>>)
    /\ UNCHANGED <<tokvars, unescvars, envvars>>

\* read_line returns Err (a read error, bytes that are not UTF-8): unwrap
\* panics, with nothing in the new String input
ReadFail ==
    /\ sh_pc = "loop" /\ ~sh_state.exit_code.some
    /\ sh_nread < MaxLines
    /\ ~sh_eof
    /\ sh_pc' = "panicked"
    /\ sh_nread' = sh_nread + 1
    /\ sh_input' = <<>>
    /\ sh_out' = <<"$ ">>
    /\ UNCHANGED <<sh_state, sh_argv, sh_status, sh_eof, sh_child,
                   tokvars, unescvars, envvars>>

\* eval: no word
EvalEmpty ==
    /\ sh_pc = "eval" /\ sh_argv = <<>>
    /\ sh_pc' = "loop"
    /\ sh_out' = <<>>
    /\ UNCHANGED <<sh_state, sh_input, sh_argv, sh_status, sh_eof, sh_nread,
                   sh_child, tokvars, unescvars, envvars>>

\* eval: the command is a builtin
EvalBuiltin ==
    /\ sh_pc = "eval" /\ sh_argv # <<>>
    /\ Head(sh_argv) \in BUILTIN_FUNCITONS
    /\ LET r == builtin_fn(Head(sh_argv), sh_state, Tail(sh_argv))
       IN  sh_state' = r.state /\ sh_out' = r.out
    /\ sh_pc' = "loop"
    /\ UNCHANGED <<sh_input, sh_argv, sh_status, sh_eof, sh_nread, sh_child,
                   tokvars, unescvars, envvars>>

\* the path names a directory the child can change to
is_dir(p) ==
    LET r == resolve(env_cwd, p)
    IN  r.kind = "Ok" /\ Files[r.node].type = "dir"

\* eval: the command is a file which_internal finds; spawn succeeds and the
\* child runs, or fails and expect panics.  It fails when the child cannot
\* change to the directory given with current_dir.
EvalSpawn ==
    /\ sh_pc = "eval" /\ sh_argv # <<>>
    /\ Head(sh_argv) \notin BUILTIN_FUNCITONS
    /\ which_internal(path_var, Head(sh_argv)).some
    /\ \E spawned \in (IF is_dir(sh_state.pwd) THEN BOOLEAN ELSE {FALSE}) :
          /\ sh_pc' = IF spawned THEN "wait" ELSE "panicked"
          /\ sh_child' =
                 IF spawned
                 THEN [status |-> "running",
                       program |-> which_internal(path_var, Head(sh_argv)).val,
                       args |-> Tail(sh_argv),
                       dir |-> sh_state.pwd]
                 ELSE NoChild
          /\ sh_out' = <<>>
    /\ UNCHANGED <<sh_state, sh_input, sh_argv, sh_status, sh_eof, sh_nread,
                   tokvars, unescvars, envvars>>

\* the child process exits, with whatever status
ChildExit ==
    /\ sh_child.status = "running"
    /\ sh_child' = [sh_child EXCEPT !.status = "exited"]
    /\ UNCHANGED <<sh_pc, sh_state, sh_input, sh_argv, sh_out, sh_status,
                   sh_eof, sh_nread, tokvars, unescvars, envvars>>

\* Child::wait returns without waiting (a plausible bug: try_wait)
EvalWait_nohang ==
    /\ sh_pc = "wait"
    /\ sh_pc' = "loop"
    /\ sh_child' = IF sh_child.status = "exited" THEN NoChild ELSE sh_child
    /\ UNCHANGED <<sh_state, sh_input, sh_argv, sh_out, sh_status, sh_eof,
                   sh_nread, tokvars, unescvars, envvars>>

\* eval: wait blocks until the child has exited, reaps it and returns,
\* whatever its status
EvalWait ==
    /\ sh_pc = "wait" /\ sh_child.status = "exited"
    /\ sh_pc' = "loop"
    /\ sh_child' = NoChild
    /\ UNCHANGED <<sh_state, sh_input, sh_argv, sh_out, sh_status, sh_eof,
                   sh_nread, tokvars, unescvars, envvars>>

\* eval: the command is neither
EvalNotFound ==
    /\ sh_pc = "eval" /\ sh_argv # <<>>
    /\ Head(sh_argv) \notin BUILTIN_FUNCITONS
    /\ ~which_internal(path_var, Head(sh_argv)).some
    /\ sh_pc' = "loop"
    /\ sh_out' = <<"command not found", Head(sh_argv)>>
    /\ UNCHANGED <<sh_state, sh_input, sh_argv, sh_status, sh_eof, sh_nread,
                   sh_child, tokvars, unescvars, envvars>>

\* the while test fails: std::process::exit(state.exit_code.unwrap())
ProcessExit ==
    /\ sh_pc = "loop" /\ sh_state.exit_code.some
    /\ sh_pc' = "exited"
    /\ sh_status' = sh_state.exit_code
    /\ UNCHANGED <<sh_state, sh_input, sh_argv, sh_out, sh_eof, sh_nread,
                   sh_child, tokvars, unescvars, envvars>>

NextShell ==
    \/ ReadLine
    \/ ReadEof
    \/ ReadFail
    \/ EvalEmpty
    \/ EvalBuiltin
    \/ EvalSpawn
    \/ ChildExit
    \/ EvalWait
    \/ EvalNotFound
    \/ ProcessExit

SpecShell == InitShell /\ [][NextShell]_vars

\* main is one running thread: a read at end of file returns at once and
\* eval of an empty argv returns
SpecShellFair == SpecShell /\ WF_vars(ReadEof) /\ WF_vars(EvalEmpty)

----------------------------------------------------------------------------
(* The grammar of a line, as the claims about the tokenizer read it: every  *)
(* character of the line is classified by one left-to-right scan in which   *)
(* a backslash escapes the next character and a quote opens or closes a     *)
(* quote context.                                                           *)
(*   "bs"    an escaping backslash        "esc"   the character it escapes  *)
(*   "open"  an opening quote             "close" a closing quote           *)
(*   "q"     a character inside quotes    "plain" any other character       *)

RECURSIVE Marks(_, _, _)
Marks(s, escape, quote) ==
    IF s = <<>> THEN <<>>
    ELSE LET ch == Head(s)
         IN  IF escape THEN <<"esc">> \o Marks(Tail(s), FALSE, quote)
             ELSE IF ch = BackSlash THEN <<"bs">> \o Marks(Tail(s), TRUE, quote)
             ELSE IF quote = "None" /\ ch \in {"'", "\""}
                  THEN <<"open">> \o Marks(Tail(s), FALSE, ch)
             ELSE IF quote = ch THEN <<"close">> \o Marks(Tail(s), FALSE, "None")
             ELSE IF quote # "None" THEN <<"q">> \o Marks(Tail(s), FALSE, quote)
             ELSE <<"plain">> \o Marks(Tail(s), FALSE, "None")

LineMarks(s) == Marks(s, FALSE, "None")

\* the quote context in which the scan of s ends
RECURSIVE EndQuote(_, _, _)
EndQuote(s, escape, quote) ==
    IF s = <<>> THEN quote
    ELSE LET ch == Head(s)
         IN  IF escape THEN EndQuote(Tail(s), FALSE, quote)
             ELSE IF ch = BackSlash THEN EndQuote(Tail(s), TRUE, quote)
             ELSE IF quote = "None" /\ ch \in {"'", "\""}
                  THEN EndQuote(Tail(s), FALSE, ch)
             ELSE IF quote = ch THEN EndQuote(Tail(s), FALSE, "None")
             ELSE EndQuote(Tail(s), FALSE, quote)

\* end of input is reached while a quote is open
QuoteOpenAtEnd(s) == EndQuote(s, FALSE, "None") # "None"

Balanced(s) == ~QuoteOpenAtEnd(s)

\* the positions of the line (counted in characters, from 1) of each kind
PlainAt(s, i) == LineMarks(s)[i] = "plain"

IsOperatorAt(s, i) == PlainAt(s, i) /\ s[i] = ">"

IsSpaceAt(s, i) == PlainAt(s, i) /\ is_whitespace(s[i])

IsWordCharAt(s, i) == ~IsOperatorAt(s, i) /\ ~IsSpaceAt(s, i)

\* the number of words of the line: the maximal runs of word characters
NumWords(s) ==
    Cardinality({i \in 1..Len(s) :
        IsWordCharAt(s, i) /\ (i = 1 \/ ~IsWordCharAt(s, i - 1))})

\* the number of redirect operators of the line: each maximal run of k
\* adjacent operator characters is read greedily as >> >> ... and a last >
RunStart(s, i) ==
    CHOOSE j \in 1..i :
        /\ \A k \in j..i : IsOperatorAt(s, k)
        /\ (j = 1 \/ ~IsOperatorAt(s, j - 1))

NumOperators(s) ==
    Cardinality({i \in 1..Len(s) :
        IsOperatorAt(s, i) /\ (i - RunStart(s, i)) % 2 = 0})

\* the byte offset of the i-th character of the line
ByteOff(s, i) == str_len(SubSeq(s, 1, i - 1))

\* the token covers the i-th character of the line
Covers(tok, s, i) ==
    /\ tok.start <= ByteOff(s, i)
    /\ ByteOff(s, i) < tok.start + str_len(tok.text)

IsOperatorToken(tok) == tok.text \in {<<">">>, <<">", ">">>}

Tokenized == t_result # NoResult

TokensOf(res) == {res.tokens[k] : k \in 1..Len(res.tokens)}

\* the token is a slice of the line: its bytes are the line's at its offset
IsSlice(tok, s) ==
    LET a == char_boundary(s, tok.start)
        b == char_boundary(s, tok.start + str_len(tok.text))
    IN  a # -1 /\ b # -1 /\ tok.text = SubSeq(s, a + 1, b)

\* every character of the line is encoded in one byte
SingleByte(s) == \A i \in 1..Len(s) : len_utf8(s[i]) = 1

TokenizedOk == Tokenized /\ t_result.kind = "Ok"

----------------------------------------------------------------------------
(* Claims about the tokenizer (specification SpecTok) *)

\* C1 (as claimed): when end of input is reached while a quote is open,
\* tokenize returns Err(QuoteMissing).  The code returns Err(UnknownToken):
\* quoted returns None, many stops, and the rest is not empty.
C1_QuoteMissing ==
    Tokenized /\ QuoteOpenAtEnd(t_src) => t_result = Err("QuoteMissing")

\* C5 (as claimed): for a line with balanced quoting, tokenize does not panic
\* and returns Ok with as many tokens as the line has words and redirect
\* operators.  raw_word and quoted slice the line at an index counted in
\* characters, which is no byte offset once a character takes two bytes.
C5_BalancedLineTokenCount ==
    Tokenized /\ Balanced(t_src) =>
        /\ t_result.kind = "Ok"
        /\ Len(t_result.tokens) = NumWords(t_src) + NumOperators(t_src)

\* C5 on lines of one-byte characters only: there the claim holds.
C5_SingleByteTokenCount ==
    Tokenized /\ Balanced(t_src) /\ SingleByte(t_src) =>
        /\ t_result.kind = "Ok"
        /\ Len(t_result.tokens) = NumWords(t_src) + NumOperators(t_src)

\* C6 (as claimed): a line with a | outside quotes is rejected with
\* Err(UnknownToken).
C6_PipeRejected ==
    Tokenized /\ (\E i \in 1..Len(t_src) : t_src[i] = "|" /\ PlainAt(t_src, i))
        => t_result = Err("UnknownToken")

\* C6 (amended): | is an ordinary character of a raw run.  A line without any
\* quote character is never rejected, with or without |, and in every Ok
\* result each | of the line lies inside a returned word token.
C6_PipeIsWordChar ==
    Tokenized =>
        /\ (\A i \in 1..Len(t_src) : t_src[i] \notin {"'", "\""})
               => t_result.kind # "Err"
        /\ t_result.kind = "Ok" =>
               \A i \in 1..Len(t_src) : t_src[i] = "|" =>
                   \E tok \in TokensOf(t_result) :
                       ~IsOperatorToken(tok) /\ Covers(tok, t_src, i)

\* C6 witness: an unquoted, unescaped | returned inside a word of an Ok result
C6_Witness ==
    /\ TokenizedOk
    /\ \E i \in 1..Len(t_src) :
          /\ t_src[i] = "|" /\ PlainAt(t_src, i)
          /\ \E tok \in TokensOf(t_result) : Covers(tok, t_src, i)

\* each unescaped, unquoted > is in an operator token, two adjacent ones are
\* read greedily as >>, and no word token holds one
OperatorsStandAlone ==
    /\ \A i \in 1..Len(t_src) : IsOperatorAt(t_src, i) =>
           \E tok \in TokensOf(t_result) :
               IsOperatorToken(tok) /\ Covers(tok, t_src, i)
    /\ \A i \in 1..(Len(t_src) - 1) :
           /\ IsOperatorAt(t_src, i) /\ IsOperatorAt(t_src, i + 1)
           /\ (i - RunStart(t_src, i)) % 2 = 0
           => \E tok \in TokensOf(t_result) :
                  tok.text = <<">", ">">> /\ tok.start = ByteOff(t_src, i)
    /\ \A tok \in TokensOf(t_result) : ~IsOperatorToken(tok) =>
           \A i \in 1..Len(t_src) :
               Covers(tok, t_src, i) => ~IsOperatorAt(t_src, i)

\* C7 (as claimed): in every Ok result each unescaped, unquoted > is a
\* standalone operator token and no word token contains one.
C7_OperatorsStandAlone == TokenizedOk => OperatorsStandAlone

\* C7 on lines of one-byte characters only: there the claim holds.
C7_SingleByteOperators ==
    TokenizedOk /\ SingleByte(t_src) => OperatorsStandAlone

\* the tokens are non-empty slices of the line, in order and disjoint; what
\* lies outside them is whitespace; two tokens that touch are not both words;
\* no token holds unescaped unquoted whitespace; a blank line has no token
TokensPartitionLine ==
    LET toks == t_result.tokens
    IN  /\ \A k \in 1..Len(toks) :
               toks[k].text # <<>> /\ IsSlice(toks[k], t_src)
        /\ \A k \in 1..(Len(toks) - 1) :
               toks[k].start + str_len(toks[k].text) <= toks[k + 1].start
        /\ \A i \in 1..Len(t_src) :
               (\A tok \in TokensOf(t_result) : ~Covers(tok, t_src, i))
                   => is_whitespace(t_src[i])
        /\ \A k \in 1..(Len(toks) - 1) :
               toks[k].start + str_len(toks[k].text) = toks[k + 1].start
                   => IsOperatorToken(toks[k]) \/ IsOperatorToken(toks[k + 1])
        /\ \A tok \in TokensOf(t_result) : \A i \in 1..Len(t_src) :
               Covers(tok, t_src, i) => ~IsSpaceAt(t_src, i)
        /\ (\A i \in 1..Len(t_src) : is_whitespace(t_src[i])) => toks = <<>>

\* C8 (as claimed): in every Ok result the tokens are ordered disjoint
\* non-empty slices, only whitespace lies outside them, adjacent runs form
\* one token and no token holds unescaped unquoted whitespace.
C8_TokensPartitionLine == TokenizedOk => TokensPartitionLine

\* C8 on lines of one-byte characters only: there the claim holds.
C8_SingleByteTokens == TokenizedOk /\ SingleByte(t_src) => TokensPartitionLine

----------------------------------------------------------------------------
(* Claims about the resolver (specification SpecUnescape), each about the   *)
(* iteration of the loop that was run last                                  *)

\* the last iteration ran in quote context q
LastIn(q) == u_last # NoStep /\ u_last.state.is_in_quote = q

\* the last iteration pushed c onto the result / pushed nothing
Emitted(c) == u_result = Append(u_last.result, c)
Dropped == u_result = u_last.result

UState(e, q) == [escape |-> e, is_in_quote |-> q]

\* C2 (as claimed): in single-quote context every backslash is emitted
\* literally whatever follows it, and the next ' closes the context and is
\* not emitted.
C2_SingleQuoteNoEscape ==
    LastIn("SingleQuote") =>
        /\ u_last.ch = BackSlash =>
               Emitted(BackSlash) /\ u_state = UState(FALSE, "SingleQuote")
        /\ u_last.ch = SingleQuoteCh =>
               Dropped /\ u_state = UState(FALSE, "None")

\* C2 (amended): in single-quote context a backslash is emitted literally
\* unless the character after it is ', in which case the backslash is dropped
\* and that ' is emitted literally without closing the context; every other '
\* closes the context and is not emitted.
C2_SingleQuoteEscapesQuoteOnly ==
    LastIn("SingleQuote") =>
        /\ u_last.ch = BackSlash /\ u_last.peek # SingleQuoteCh =>
               Emitted(BackSlash) /\ u_state = UState(FALSE, "SingleQuote")
        /\ u_last.ch = BackSlash /\ u_last.peek = SingleQuoteCh =>
               Dropped /\ u_state = UState(TRUE, "SingleQuote")
        /\ u_last.state.escape =>
               /\ u_last.ch = SingleQuoteCh
               /\ Emitted(SingleQuoteCh)
               /\ u_state = UState(FALSE, "SingleQuote")
        /\ u_last.ch = SingleQuoteCh /\ ~u_last.state.escape =>
               Dropped /\ u_state = UState(FALSE, "None")

\* C2 witness: a ' after a backslash was emitted inside single quotes
C2_Witness ==
    /\ LastIn("SingleQuote")
    /\ u_last.state.escape
    /\ u_last.ch = SingleQuoteCh
    /\ u_state.is_in_quote = "SingleQuote"

\* C3: in double-quote context a backslash before " or \ is dropped and the
\* character after it is emitted literally without closing the context; a
\* backslash before anything else is emitted, and so is that character; an
\* unescaped " closes the context and is not emitted; a ' is emitted and
\* leaves the context as it is.
C3_DoubleQuoteEscapes ==
    LastIn("DoubleQuote") =>
        /\ ~u_last.state.escape /\ u_last.ch = BackSlash
               /\ u_last.peek \in {DoubleQuoteCh, BackSlash} =>
               Dropped /\ u_state = UState(TRUE, "DoubleQuote")
        /\ u_last.state.escape =>
               /\ u_last.ch \in {DoubleQuoteCh, BackSlash}
               /\ Emitted(u_last.ch)
               /\ u_state = UState(FALSE, "DoubleQuote")
        /\ ~u_last.state.escape /\ u_last.ch = BackSlash
               /\ u_last.peek \notin {DoubleQuoteCh, BackSlash} =>
               Emitted(BackSlash) /\ u_state = UState(FALSE, "DoubleQuote")
        /\ ~u_last.state.escape /\ u_last.ch \notin {DoubleQuoteCh, BackSlash} =>
               Emitted(u_last.ch) /\ u_state = UState(FALSE, "DoubleQuote")
        /\ ~u_last.state.escape /\ u_last.ch = DoubleQuoteCh =>
               Dropped /\ u_state = UState(FALSE, "None")

\* C3 witness: a " after a backslash was emitted inside double quotes, which
\* stay open
C3_Witness ==
    /\ LastIn("DoubleQuote")
    /\ u_last.state.escape
    /\ u_last.ch = DoubleQuoteCh
    /\ u_state.is_in_quote = "DoubleQuote"
    /\ Emitted(DoubleQuoteCh)

\* C4: outside quotes a backslash is dropped and exactly the next character
\* is emitted literally (an escaped quote opens no context, an escaped
\* backslash escapes nothing); an unescaped ' or " opens its context and is
\* not emitted.
C4_OutsideEscapesNext ==
    LastIn("None") =>
        /\ ~u_last.state.escape /\ u_last.ch = BackSlash =>
               Dropped /\ u_state = UState(TRUE, "None")
        /\ u_last.state.escape =>
               Emitted(u_last.ch) /\ u_state = UState(FALSE, "None")
        /\ ~u_last.state.escape /\ u_last.ch = SingleQuoteCh =>
               Dropped /\ u_state = UState(FALSE, "SingleQuote")
        /\ ~u_last.state.escape /\ u_last.ch = DoubleQuoteCh =>
               Dropped /\ u_state = UState(FALSE, "DoubleQuote")
        /\ ~u_last.state.escape
               /\ u_last.ch \notin {BackSlash, SingleQuoteCh, DoubleQuoteCh} =>
               Emitted(u_last.ch) /\ u_state = UState(FALSE, "None")

\* C4 witness: a quote after a backslash was emitted outside quotes and
\* opened no context
C4_Witness ==
    /\ LastIn("None")
    /\ u_last.state.escape
    /\ u_last.ch \in {SingleQuoteCh, DoubleQuoteCh}
    /\ Emitted(u_last.ch)
    /\ u_state = UState(FALSE, "None")

----------------------------------------------------------------------------
(* Claims about the read-eval loop (specification SpecShell) *)

\* the integers the first arguments of the exit lines of InputLines denote;
\* x and 2147483648 (one more than the largest i32) denote none
IntegerOf ==
    (<<"3">> :> 3) @@ (<<"-", "1">> :> -1) @@ (<<"7">> :> 7)

\* eval is about to run the builtin exit
EvaluatingExit == sh_pc = "eval" /\ sh_argv # <<>> /\ Head(sh_argv) = S_exit

\* ... with no argument or one that parses, and the code it denotes
ExitSucceeds == Len(sh_argv) = 1 \/ sh_argv[2] \in DOMAIN IntegerOf
ExitValue == IF Len(sh_argv) = 1 THEN 0 ELSE IntegerOf[sh_argv[2]]

\* once exit_code is Some(n) main is at the while test or has exited with n
C9_Inv ==
    /\ sh_state.exit_code.some => sh_pc \in {"loop", "exited"}
    /\ sh_state.exit_code.some /\ sh_pc = "loop" => ENABLED ProcessExit
    /\ sh_pc = "exited" => sh_state.exit_code.some /\ sh_status = sh_state.exit_code
    /\ sh_pc # "exited" => ~sh_status.some

C9_Step ==
    \* exit_code is set only by a successful exit, to the code it names
    /\ sh_state'.exit_code # sh_state.exit_code =>
           /\ ~sh_state.exit_code.some
           /\ EvaluatingExit /\ ExitSucceeds
           /\ sh_state'.exit_code = SomeOpt(ExitValue)
    \* a successful exit does set it
    /\ EvaluatingExit /\ ExitSucceeds =>
           sh_state'.exit_code = SomeOpt(ExitValue) /\ sh_pc' = "loop"
    \* an exit whose argument does not parse leaves it None; the loop goes on
    /\ EvaluatingExit /\ ~ExitSucceeds =>
           sh_state' = sh_state /\ sh_pc' = "loop"
    \* once it is set no line is read and the process exits with it
    /\ sh_state.exit_code.some =>
           /\ sh_nread' = sh_nread /\ sh_input' = sh_input
           /\ sh_pc' = "exited" /\ sh_status' = sh_state.exit_code

\* C9: exit_code stays None until an exit with no argument (code 0) or with
\* a first argument that parses is evaluated; that step makes it Some(n), no
\* further line is read and the process exits with n; an exit whose argument
\* does not parse leaves it None and the loop continues; nothing else sets it.
C9_ExitCodeSetOnceByExit == []C9_Inv /\ [][C9_Step]_vars

\* C9 witness: the process has exited with the code 3 of the line `exit 3`,
\* having read no line after it
C9_Witness ==
    /\ sh_pc = "exited"
    /\ sh_status = SomeOpt(3)
    /\ sh_argv = <<S_exit, <<"3">>>>
    /\ sh_nread >= 2

\* C10 (as claimed): the process ends only by evaluating a successful exit;
\* no parse error, unknown command, failed spawn or failed read ends it.
\* The code panics on a failed read (unwrap), on a failed spawn (expect) and
\* in the slices of tokenize on a line with a two-byte character.
C10_OnlyExitEndsProcess ==
    sh_pc \in {"exited", "panicked"} =>
        /\ sh_pc = "exited"
        /\ sh_state.exit_code.some
        /\ sh_argv # <<>> /\ Head(sh_argv) = S_exit

----------------------------------------------------------------------------
(* Claims about the tracked directory (specification SpecShell) *)

\* the names of an absolute path, in order
Components(p) == IF p = Sl THEN <<>> ELSE Tail(split(p, "/"))

\* p is absolute, none of its names is empty, . or .., and each of its
\* prefixes names an existing file that is no symbolic link
IsCanonical(p) ==
    /\ p # <<>> /\ Head(p) = "/"
    /\ LET comps == Components(p)
       IN  \A k \in 1..Len(comps) :
               /\ comps[k] \notin {<<>>, <<".">>, <<".", ".">>}
               /\ SubSeq(comps, 1, k) \in DOMAIN Files
               /\ Files[SubSeq(comps, 1, k)].type # "link"

\* eval is about to run the builtin named cmd
Evaluating(cmd) == sh_pc = "eval" /\ sh_argv # <<>> /\ Head(sh_argv) = cmd

\* the directory a cd names: the home directory for no argument or ~
CdTarget ==
    IF Len(sh_argv) = 1 \/ sh_argv[2] = <<"~">> THEN env_home
    ELSE SomeOpt(sh_argv[2])

\* what the operating system makes of that directory, taken from the
\* tracked directory
CdResolved == resolve(env_cwd, path_join(sh_state.pwd, CdTarget.val))

CdSucceeds == CdTarget.some /\ CdResolved.kind = "Ok"

\* a cd succeeds exactly when its target resolves, and then stores the
\* canonical path of the file the target names
C11_Step ==
    Evaluating(S_cd) =>
        /\ sh_out' = <<>> <=> CdSucceeds
        /\ CdSucceeds => sh_state'.pwd = display(CdResolved.node)

\* C11: current_directory is always an absolute, canonical path (no ., ..
\* or symbolic link in it) of an existing file, and every successful cd
\* stores the canonicalization of its argument joined onto the previous
\* current_directory (of the home directory for no argument or ~).
C11_CurrentDirectoryCanonical ==
    [](IsCanonical(sh_state.pwd)) /\ [][C11_Step]_vars

\* C11 witness: `cd o/l/../h` was evaluated in /, through the symbolic link
\* /o/l to /b and back up to /, and the tracked directory is /h
C11_Witness ==
    /\ sh_pc = "loop"
    /\ sh_argv = <<S_cd, S_o \o Sl \o S_l \o Sl \o <<".", ".">> \o Sl \o S_h>>
    /\ sh_out = <<>>
    /\ env_cwd = <<>>
    /\ sh_state.pwd = Sl \o S_h

\* the steps of C12
C12_Step ==
    /\ Evaluating(S_cd) /\ ~CdSucceeds =>
           /\ sh_state' = sh_state
           /\ sh_out' # <<>>
           /\ sh_pc' = "loop"
    /\ Evaluating(S_pwd) =>
           sh_out' = <<"pwd", sh_state.pwd>> /\ sh_state' = sh_state

\* C12: a cd that fails (the target is not found, canonicalize fails
\* otherwise, or there is no home directory) reports it and leaves the whole
\* ShellState as it was, so that a following pwd prints the directory of
\* before.
C12_FailedCdKeepsState == [][C12_Step]_vars

\* C12 witness: `cd zz` has failed in /b, a directory an earlier cd had
\* entered, and /b is still the tracked directory
C12_Witness ==
    /\ sh_pc = "loop"
    /\ sh_argv = <<S_cd, S_zz>>
    /\ sh_out = <<"cd: No such file or directory", S_zz>>
    /\ sh_state = [exit_code |-> NoneOpt, pwd |-> Sl \o S_b]

\* the steps of C13
C13_Step ==
    /\ sh_state'.pwd # sh_state.pwd => Evaluating(S_cd)
    /\ sh_state'.exit_code # sh_state.exit_code => Evaluating(S_exit)
    /\ sh_pc = "eval" /\ (sh_argv = <<>> \/ Head(sh_argv) \notin {S_cd, S_exit})
           => sh_state' = sh_state
    /\ sh_pc = "wait" => sh_state' = sh_state

\* C13: only cd changes current_directory and only exit changes exit_code;
\* echo, pwd, type, which, an external command, an unresolved name and an
\* empty line leave the ShellState as it was.
C13_OnlyCdAndExitChangeState == [][C13_Step]_vars

\* C13 witness: pwd was evaluated after a cd had left the directory of the
\* process, and the tracked directory is still the one cd stored
C13_Witness ==
    /\ sh_pc = "loop"
    /\ sh_argv = <<S_pwd>>
    /\ sh_state.pwd = Sl \o S_b
    /\ sh_out = <<"pwd", Sl \o S_b>>
    /\ current_dir # sh_state.pwd

----------------------------------------------------------------------------
(* Claims about the search of PATH and the dispatch (specification          *)
(* SpecShell)                                                               *)

\* the entries of the colon-separated list
PathEntries == split(path_var, ":")

\* the file dir/cmd of the entry dir; the empty entry names the directory
\* of the process, where the file is cmd
DirEntry(dir, cmd) == IF dir = <<>> THEN cmd ELSE dir \o Sl \o cmd

\* the operating system finds at p a regular file with an execute bit set
IsExecutableFile(p) ==
    LET r == resolve(env_cwd, p)
    IN  r.kind = "Ok" /\ Files[r.node].type = "file" /\ Files[r.node].exec

\* the entries that hold an executable regular file cmd
Qualifying(cmd) ==
    {i \in 1..Len(PathEntries) : IsExecutableFile(DirEntry(PathEntries[i], cmd))}

\* what the search of cmd is to return
FirstOnPath(cmd) ==
    IF Qualifying(cmd) = {} THEN NoneOpt
    ELSE LET i == CHOOSE j \in Qualifying(cmd) : \A k \in Qualifying(cmd) : j <= k
         IN  SomeOpt(DirEntry(PathEntries[i], cmd))

\* `which cmd` has just been evaluated
WhichDone == sh_pc = "loop" /\ Len(sh_argv) = 2 /\ sh_argv[1] = S_which

\* C14: which_internal returns dir/cmd for the first entry dir of the
\* colon-separated list, from left to right, in which cmd is a regular file
\* with an execute bit set; entries where cmd is missing, is no regular file
\* or has no execute bit are skipped, and it returns None when there is none.
\* Seen in what `which cmd` prints and in the program eval spawns.
C14_FirstExecutableOnPath ==
    /\ WhichDone =>
           sh_out = IF FirstOnPath(sh_argv[2]).some
                    THEN <<"is", sh_argv[2], FirstOnPath(sh_argv[2]).val>>
                    ELSE <<"not found", sh_argv[2]>>
    /\ sh_child.status # "none" =>
           SomeOpt(sh_child.program) = FirstOnPath(Head(sh_argv))
    /\ sh_pc = "loop" /\ sh_out # <<>> /\ sh_out[1] = "command not found" =>
           ~FirstOnPath(Head(sh_argv)).some

\* C14 witness: with PATH=/b:/o, `which echo` has skipped /b/echo, which has
\* no execute bit, and printed /o/echo
C14_Witness ==
    /\ WhichDone
    /\ env_path = SomeOpt(Sl \o S_b \o <<":">> \o Sl \o S_o)
    /\ sh_out = <<"is", S_echo, Sl \o S_o \o Sl \o S_echo>>

\* PATH is unset or the empty string
PathEmpty == ~env_path.some \/ env_path.val = <<>>

\* C15 (as claimed): when PATH is unset or empty no directory is searched:
\* no command is spawned, every name that is no builtin is reported as not
\* found by eval, and which and type report not found, whatever files exist.
\* The code splits the empty string into one empty entry and looks the name
\* up in the working directory of the process.
C15_EmptyPathFindsNothing ==
    PathEmpty =>
        /\ sh_pc # "wait" /\ sh_child.status = "none"
        /\ WhichDone => sh_out = <<"not found", sh_argv[2]>>
        /\ sh_pc = "loop" /\ Len(sh_argv) = 2 /\ sh_argv[1] = S_type
               /\ sh_argv[2] \notin BUILTIN_FUNCITONS
               => sh_out = <<"not found", sh_argv[2]>>

\* what `type name` prints in the state
TypeReport(name) == type_fn(sh_state, <<name>>).out

\* `type name` has just been evaluated
TypeDone == sh_pc = "loop" /\ Len(sh_argv) = 2 /\ sh_argv[1] = S_type

\* what is seen of the branches of eval
C16_Inv ==
    \* the file of the spawned process is the file P of `name is P`
    /\ sh_child.status # "none" =>
           TypeReport(Head(sh_argv)) = <<"is", Head(sh_argv), sh_child.program>>
    \* an evaluated `type name` prints the report
    /\ TypeDone => sh_out = TypeReport(sh_argv[2])

\* the step of eval that dispatches a name: a process is spawned (or spawn
\* fails), or command not found is printed, or else a builtin has run
C16_Step ==
    sh_pc = "eval" /\ sh_argv # <<>> =>
        LET name == Head(sh_argv)
            spawns == sh_pc' \in {"wait", "panicked"}
            not_found == sh_pc' = "loop"
                            /\ sh_out' = <<"command not found", name>>
        IN  /\ TypeReport(name) = <<"is a shell builtin", name>>
                   <=> ~spawns /\ ~not_found
            /\ TypeReport(name)[1] = "is" <=> spawns
            /\ TypeReport(name) = <<"not found", name>> <=> not_found
            /\ spawns /\ sh_pc' = "wait" =>
                   TypeReport(name) = <<"is", name, sh_child'.program>>

\* C16: the builtins are looked up before PATH and type agrees with eval:
\* what `type name` prints in the state where eval dispatches name is a
\* builtin exactly when eval runs a builtin (also when PATH holds an
\* executable of that name), `name is P` exactly when eval spawns the file
\* P, and not found exactly when eval reports command not found.
C16_TypeAgreesWithDispatch == []C16_Inv /\ [][C16_Step]_vars

\* C16 witness: with an executable echo on PATH, eval has run the builtin
\* echo, and `type echo` says builtin
C16_Witness ==
    /\ sh_pc = "loop"
    /\ sh_argv # <<>> /\ Head(sh_argv) = S_echo
    /\ sh_out = <<"echo", Tail(sh_argv)>>
    /\ sh_child = NoChild
    /\ FirstOnPath(S_echo).some
    /\ TypeReport(S_echo) = <<"is a shell builtin", S_echo>>

----------------------------------------------------------------------------
(* Claims about the argument vector (specification SpecShell) *)

\* every character of the line is plain: no quote, no backslash
NoQuoting(line) ==
    \A i \in 1..Len(line) : line[i] \notin {"'", "\"", BackSlash}

IsOperatorWord(w) == w \in {<<">">>, <<">", ">">>}

\* the vector is the argument vector handed over for a line
Handed(args) ==
    \/ sh_pc = "loop" /\ sh_out = <<"echo", args>>
    \/ sh_child.status # "none" /\ sh_child.args = args

\* C17 (as claimed): the argument vector handed to the builtin or to the
\* spawned process holds only words: no redirect operator, no 1 or 2 before
\* one, no path after one; the words [echo, a, 2, >, b] give argv = [a].
\* eval of main.rs hands over every word after the first; nothing under
\* src/ treats > or >> as an operator.
C17_ArgvHoldsOnlyWords ==
    \A args \in {IF sh_argv = <<>> THEN <<>> ELSE Tail(sh_argv), <<<<"a">>>>} :
        Handed(args) /\ sh_argv # <<>> /\ NoQuoting(sh_input) =>
            /\ \A k \in 1..Len(args) : ~IsOperatorWord(args[k])
            /\ sh_argv = <<S_echo, <<"a">>, <<"2">>, <<">">>, S_b>>
                   => args = <<<<"a">>>>

----------------------------------------------------------------------------
(* Claims about the loop of main (specification SpecShell) *)

\* a ParseError has just been reported
ParseErrorReported == sh_pc = "loop" /\ sh_out = <<"$ ", "QuoteMissing">>

C18_Step ==
    \* a line that ends inside a quote is a ParseError: it is reported,
    \* nothing is evaluated, the state is kept, main is back at the while test
    /\ sh_nread' = sh_nread + 1
           /\ QuoteOpenAtEnd(sh_input') /\ SingleByte(sh_input') =>
           /\ sh_out' = <<"$ ", "QuoteMissing">>
           /\ sh_argv' = <<>>
           /\ sh_child' = NoChild
           /\ sh_state' = sh_state
           /\ sh_pc' = "loop"
    \* and what main does next is read a line
    /\ ParseErrorReported => sh_nread' = sh_nread + 1 /\ sh_state' = sh_state

\* C18: when parsing a line fails with a ParseError the error is reported,
\* no builtin is run and no process is spawned for that line, the ShellState
\* is unchanged, and the loop goes on to prompt for and read the next line.
C18_ParseErrorSkipsLine ==
    [](ParseErrorReported => ~sh_state.exit_code.some /\ sh_child = NoChild)
        /\ [][C18_Step]_vars

\* C18 witness: the line `echo "a` was reported as a ParseError in /b, which
\* an earlier cd had entered
C18_Witness ==
    /\ ParseErrorReported
    /\ sh_input = S_echo \o Sp \o <<"\"", "a">> \o Nl
    /\ sh_argv = <<>>
    /\ sh_state = [exit_code |-> NoneOpt, pwd |-> Sl \o S_b]
    /\ sh_nread < MaxLines

C19_Step ==
    \* a line is read only at the while test, with no child left
    /\ sh_nread' # sh_nread => sh_pc = "loop" /\ sh_child = NoChild
    \* a parsed line is dispatched before anything is read or prompted
    /\ sh_pc \in {"eval", "wait"} =>
           sh_nread' = sh_nread /\ sh_input' = sh_input /\ sh_argv' = sh_argv
    \* wait returns only once the child has exited
    /\ sh_pc = "wait" /\ sh_pc' # "wait" => sh_child.status = "exited"

\* C19: evaluation is sequential: after an external command is spawned main
\* prints no prompt and reads no line until that child has exited, and each
\* line is parsed and dispatched before the next is read.
C19_EvaluationIsSequential ==
    [](sh_child.status = "running" => sh_pc = "wait") /\ [][C19_Step]_vars

\* C19 witness: the child runs and main is in wait, with standard input not
\* at its end and lines left to read
C19_Witness ==
    /\ sh_child.status = "running"
    /\ sh_pc = "wait"
    /\ ~sh_eof
    /\ sh_nread < MaxLines

----------------------------------------------------------------------------
(* Claims about the tokenizer and the resolver together (specification      *)
(* SpecTok)                                                                  *)

\* the quote characters of the string
NumQuotes(s) == Cardinality({i \in 1..Len(s) : s[i] \in {"'", "\""}})

\* the quote characters of the token that are no delimiters of a quoted run
NumLiteralQuotes(s) ==
    Cardinality({i \in 1..Len(s) :
        s[i] \in {"'", "\""} /\ LineMarks(s)[i] \notin {"open", "close"}})

\* C20 (as claimed): for every token of an Ok result of tokenize, unescape
\* ends with the quote context closed and no escape pending, and drops each
\* quote character the tokenizer took for a delimiter.  quoted takes a
\* backslash in single quotes to escape whatever follows, unescape_inside
\* only a following ': the token '\\' is a complete run for the one and
\* leaves the quote open in the other.
C20_QuotesCloseInResolver ==
    TokenizedOk =>
        \A tok \in TokensOf(t_result) :
            /\ unescape_state(tok.text) = [escape |-> FALSE, is_in_quote |-> "None"]
            /\ NumQuotes(unescape(tok.text)) = NumLiteralQuotes(tok.text)

----------------------------------------------------------------------------
(* Claims about two lines: the tokenizer and the resolver (specification    *)
(* SpecTok)                                                                  *)

\* the second line of a claim about two lines has at most MaxOtherLen
\* characters
MaxOtherLen == 2

OtherLines == StrsUpTo(TokChars, MaxOtherLen)

\* the resolved words of an Ok result: unescape applied to each token
Resolved(res) == [k \in 1..Len(res.tokens) |-> unescape(res.tokens[k].text)]

\* the positions of the result that hold a redirect operator token
OperatorPositions(res) ==
    {k \in 1..Len(res.tokens) : IsOperatorToken(res.tokens[k])}

\* C21 (as claimed): two lines that tokenize to equal resolved word
\* sequences have their redirect operator tokens at the same positions, and
\* no token other than an operator token resolves to the word > or >>.
\* tokenize returns bare slices and unescape strips the quoting: the tokens
\* '>' and \> resolve to the word >, the same as the operator token.
C21_ResolutionKeepsOperators ==
    TokenizedOk =>
        /\ \A other \in OtherLines :
               LET r == tokenize(other)
               IN  (r.kind = "Ok" /\ Resolved(r) = Resolved(t_result))
                       => OperatorPositions(r) = OperatorPositions(t_result)
        /\ \A tok \in TokensOf(t_result) :
               ~IsOperatorToken(tok)
                   => unescape(tok.text) \notin {<<">">>, <<">", ">">>}

----------------------------------------------------------------------------
(* Claims about the two tokenizers (specification SpecTok)                  *)

\* the line holds no > character
NoRedirectChar(s) == \A i \in 1..Len(s) : s[i] # ">"

\* the slices of an Ok result of tokenize, as tokenize_old returns them
Texts(res) == [k \in 1..Len(res.tokens) |-> res.tokens[k].text]

\* C22 (as claimed): on a line without a > character tokenize succeeds
\* exactly when tokenize_old does and then returns the same slices, words
\* that begin with a backslash included.  tokenize_old skips a backslash
\* and the character after it before it looks for the start of a word, so
\* the word \a is lost and the word \ab starts at b.
C22_TokenizeRefinesTokenizeOld ==
    (Tokenized /\ NoRedirectChar(t_src)) =>
        LET old == tokenize_old(t_src)
        IN  /\ t_result.kind = "Ok" <=> old.kind = "Ok"
            /\ t_result.kind = "Ok" => Texts(t_result) = old.tokens

----------------------------------------------------------------------------
(* Claims about the read loop at end of file (specification SpecShellFair)  *)

\* at end of file with no exit: main is at the while test or in eval of
\* the empty line, exit_code is None and no child runs
C23_Inv ==
    sh_eof =>
        /\ sh_pc \in {"loop", "eval"}
        /\ sh_input = <<>> /\ sh_argv = <<>>
        /\ ~sh_state.exit_code.some /\ ~sh_status.some
        /\ sh_child = NoChild

C23_Step ==
    sh_eof =>
        /\ sh_eof' /\ sh_state' = sh_state
        \* the read returns the empty line, which parses to no word
        /\ sh_pc = "loop" =>
               /\ sh_pc' = "eval" /\ sh_out' = <<"$ ">>
               /\ sh_input' = <<>> /\ sh_argv' = <<>>
        \* eval returns the state as it is and the loop goes on
        /\ sh_pc = "eval" => sh_pc' = "loop"

\* C23: once standard input is at end of file with exit_code None, every
\* later read returns the empty line, it parses to the empty word list,
\* eval leaves the state unchanged with exit_code None, and main prompts
\* and reads again and again: it never exits and never panics.
C23_EofLoopsForever ==
    /\ []C23_Inv
    /\ [][C23_Step]_vars
    /\ [](sh_eof => []<>(sh_pc = "loop"))
    /\ [](sh_eof => []<>(sh_pc = "eval"))

\* C23 witness: MaxLines reads were made, end of file was reached, and main
\* is back at the while test after eval of the empty line (the state every
\* further read returns to)
C23_Witness ==
    /\ sh_eof /\ sh_pc = "loop" /\ sh_out = <<>>
    /\ sh_nread = MaxLines
    /\ ~sh_state.exit_code.some

----------------------------------------------------------------------------
(* Claims about the kind of file current_directory names (specification     *)
(* SpecShell)                                                                *)

\* the target of the cd about to run exists and is no directory
CdTargetIsFile == CdSucceeds /\ Files[CdResolved.node].type # "dir"

C24_Inv ==
    /\ is_dir(sh_state.pwd)
    /\ sh_child.status # "none" => is_dir(sh_child.dir)

C24_Step ==
    (Evaluating(S_cd) /\ CdTargetIsFile) => sh_state' = sh_state

\* C24 (as claimed): current_directory always names a directory: a cd whose
\* target exists but is a regular file is rejected and leaves
\* current_directory unchanged, and the working directory given to a
\* spawned process is a directory.  cd stores whatever fs::canonicalize
\* returns, and that succeeds on a regular file: after `cd /b/ls`
\* current_directory is /b/ls.
C24_CurrentDirectoryIsDirectory == []C24_Inv /\ [][C24_Step]_vars

====
